---- MODULE Spec2Model ----
(***************************************************************************)
(* Model of the 401(k) contribution planner: the Express backend           *)
(* (backend/index.js) and the React component (frontend/src/App.jsx).      *)
(*                                                                         *)
(* JavaScript Numbers are modelled as fixed-point integers:                *)
(*   money and contributionValue .... hundredths        (scale 10^2)       *)
(*   percentages ..................... millionths of 1%  (scale 10^6)       *)
(*   fractions, rates, growth factor . 10^-8             (scale 10^8)       *)
(*   annuity factor .................. millionths        (scale 10^6)       *)
(* Products and quotients are truncated toward zero at the scale of the    *)
(* result; they are computed from partial products so that no intermediate *)
(* value leaves the 32-bit range of the model checker.                     *)
(***************************************************************************)
EXTENDS Integers, Sequences, FiniteSets, TLC

VARIABLES
    contributionState,  \* backend: the mock "database" record
    ui,                 \* frontend: the useState cells of App
    pc,                 \* frontend: position of fetchData / handleSave
    sent,               \* body of the POST in flight (or of the last one)
    lastGet,            \* currentPercent of the last successful GET response
    postStatus,         \* status of the last POST response seen by handleSave
    actions,            \* number of user inputs and foreign requests so far
    m_in,               \* calculator: arguments of one evaluation
    m_out               \* calculator: results of that evaluation

vars == <<contributionState, ui, pc, sent, lastGet, postStatus, actions,
          m_in, m_out>>
sysvars == <<contributionState, ui, pc, sent, lastGet, postStatus, actions>>
mathvars == <<m_in, m_out>>

----------------------------------------------------------------------------
(* JavaScript values that are not finite numbers *)

Null == 0 - 2000000001
Undefined == 0 - 2000000002
NaN == 0 - 2000000003
EmptyStr == 0 - 2000000004

IsNullish(x) == x = Null \/ x = Undefined
IsFiniteNum(x) == x \notin {Null, Undefined, NaN, EmptyStr}

----------------------------------------------------------------------------
(* Fixed-point arithmetic *)

RECURSIVE Pow10(_)
Pow10(k) == IF k = 0 THEN 1 ELSE 10 * Pow10(k - 1)

Abs(x) == IF x < 0 THEN 0 - x ELSE x
Sgn(x) == IF x < 0 THEN 0 - 1 ELSE 1

MoneyScale == Pow10(2)
PctScale == Pow10(6)
FracScale == Pow10(8)
FracPerPct == FracScale \div (100 * PctScale)
PctPerVal == PctScale \div MoneyScale

Dollars(n) == n * MoneyScale
Pct(n) == n * PctScale

\* floor(a * b / 10^k) for a, b >= 0 and even k, by splitting both factors
\* at 10^(k/2) so that every partial product stays within 32 bits
MulNat(a, b, k) ==
    LET h == Pow10(k \div 2)
        ah == a \div h
        al == a % h
        bh == b \div h
        bl == b % h
    IN ah * bh + (ah * bl + al * bh + (al * bl) \div h) \div h

\* a * b where b carries k decimals; truncated toward zero
Mul(a, b, k) == Sgn(a) * Sgn(b) * MulNat(Abs(a), Abs(b), k)

\* floor(a * 10^k / b) by long division, a >= 0, b > 0
RECURSIVE DivIter(_, _, _, _)
DivIter(q, rem, b, k) ==
    IF k = 0 THEN q
    ELSE DivIter(q * 10 + (rem * 10) \div b, (rem * 10) % b, b, k - 1)

DivNat(a, b, k) == DivIter(a \div b, a % b, b, k)

\* a / b with k more decimals than a has over b; truncated toward zero
Div(a, b, k) == Sgn(a) * Sgn(b) * DivNat(Abs(a), Abs(b), k)

\* n.toFixed(digits) read back as a Number, for n carrying two decimals
ToFixed(n, digits) ==
    LET q == Pow10(2 - digits)
    IN Sgn(n) * (((Abs(n) + q \div 2) \div q) * q)

\* Math.pow(base, years) for a whole number of years >= 0, by squaring
RECURSIVE PowFrac(_, _)
PowFrac(base, years) ==
    IF years = 0 THEN FracScale
    ELSE LET half == PowFrac(base, years \div 2)
             sq == Mul(half, half, 8)
         IN IF years % 2 = 0 THEN sq ELSE Mul(sq, base, 8)

----------------------------------------------------------------------------
(* frontend/src/App.jsx: computeProjection *)

YearlyOfPercent(salary, contributionPercent) ==
    Mul(salary, contributionPercent * FracPerPct, 8)

\* annuity-due: every payment compounds one year longer
AnnuityFactor_due(r, years) ==
    IF r = 0 THEN years * PctScale
    ELSE Mul(Div(PowFrac(FracScale + r, years) - FracScale, r, 6),
             FracScale + r, 8)

\* the zero-rate branch counts one payment too few
AnnuityFactor_offByOne(r, years) ==
    IF r = 0 THEN (years - 1) * PctScale
    ELSE Div(PowFrac(FracScale + r, years) - FracScale, r, 6)

\* the zero-rate branch yields zero instead of the number of years
AnnuityFactor_zeroRate(r, years) ==
    IF r = 0 THEN 0
    ELSE Div(PowFrac(FracScale + r, years) - FracScale, r, 6)

AnnuityFactor(r, years) ==
    IF r = 0 THEN years * PctScale
    ELSE Div(PowFrac(FracScale + r, years) - FracScale, r, 6)

\* the retirement-age case is tested with < instead of <=
projectionValue_strictPast(age, retirementAge, annualReturn, currentBalance, salary, contributionPercent) ==
    LET years == retirementAge - age
        r == annualReturn
        yearlyContribution == YearlyOfPercent(salary, contributionPercent)
    IN IF years < 0
       THEN currentBalance + yearlyContribution
       ELSE LET futureBalance ==
                    Mul(currentBalance, PowFrac(FracScale + r, years), 8)
                annuityFactor == AnnuityFactor(r, years)
                futureContributions == Mul(yearlyContribution, annuityFactor, 6)
            IN futureBalance + futureContributions

\* computeProjection once every input is known
projectionValue(age, retirementAge, annualReturn, currentBalance, salary, contributionPercent) ==
    LET years == retirementAge - age
        r == annualReturn
        yearlyContribution == YearlyOfPercent(salary, contributionPercent)
    IN IF years <= 0
       THEN currentBalance + yearlyContribution
       ELSE LET futureBalance ==
                    Mul(currentBalance, PowFrac(FracScale + r, years), 8)
                annuityFactor == AnnuityFactor(r, years)
                futureContributions == Mul(yearlyContribution, annuityFactor, 6)
            IN futureBalance + futureContributions

\* a missing balance is read as zero instead of stopping the computation
computeProjection_balanceOptional(age, retirementAge, annualReturn, currentBalance, salary, contributionPercent) ==
    IF \/ IsNullish(age)
       \/ IsNullish(retirementAge)
       \/ IsNullish(salary)
    THEN Null
    ELSE projectionValue(age, retirementAge, annualReturn,
                         IF IsNullish(currentBalance) THEN 0
                         ELSE currentBalance,
                         salary, contributionPercent)

computeProjection(age, retirementAge, annualReturn, currentBalance, salary, contributionPercent) ==
    IF \/ IsNullish(age)
       \/ IsNullish(retirementAge)
       \/ IsNullish(salary)
       \/ IsNullish(currentBalance)
    THEN Null
    ELSE projectionValue(age, retirementAge, annualReturn, currentBalance,
                         salary, contributionPercent)

----------------------------------------------------------------------------
(* frontend/src/App.jsx: values derived from the UI state on every render *)

\* JavaScript truthiness of a Number-or-null value
Falsy(x) == x \in {0, Null, Undefined, NaN, EmptyStr}

\* Number(x)
ToNumber(x) ==
    IF x = Null \/ x = EmptyStr THEN 0
    ELSE IF x = Undefined THEN NaN
    ELSE x

numericContribution(contributionValue) ==
    IF Falsy(ToNumber(contributionValue)) THEN 0 ELSE ToNumber(contributionValue)

\* the per-paycheck amount is not annualised
livePercent_perPaycheck(contributionType, contributionValue, salary, payPeriods) ==
    IF contributionType = "percent"
    THEN numericContribution(contributionValue) * PctPerVal
    ELSE IF Falsy(salary) \/ Falsy(payPeriods) THEN 0
    ELSE LET yearlyDollar == numericContribution(contributionValue)
         IN Div(yearlyDollar, salary, 8) \div FracPerPct

livePercent(contributionType, contributionValue, salary, payPeriods) ==
    IF contributionType = "percent"
    THEN numericContribution(contributionValue) * PctPerVal
    ELSE IF Falsy(salary) \/ Falsy(payPeriods) THEN 0
    ELSE LET yearlyDollar == numericContribution(contributionValue) * payPeriods
         IN Div(yearlyDollar, salary, 8) \div FracPerPct

\* the zero guard covers only the Percent branch
perPaycheckDollar_dollarAsIs(contributionType, contributionValue, salary, payPeriods) ==
    IF contributionType = "percent"
    THEN IF Falsy(salary) \/ Falsy(payPeriods) THEN 0
         ELSE Div(Mul(salary,
                      numericContribution(contributionValue) * PctPerVal
                          * FracPerPct,
                      8),
                  payPeriods, 0)
    ELSE numericContribution(contributionValue)

perPaycheckDollar(contributionType, contributionValue, salary, payPeriods) ==
    IF Falsy(salary) \/ Falsy(payPeriods) THEN 0
    ELSE IF contributionType = "percent"
    THEN Div(Mul(salary,
                 numericContribution(contributionValue) * PctPerVal * FracPerPct,
                 8),
             payPeriods, 0)
    ELSE numericContribution(contributionValue)

\* the per-paycheck amount is returned without multiplying by the pay periods
yearlyContribution_perPaycheck(contributionType, contributionValue, salary, payPeriods) ==
    IF Falsy(payPeriods) THEN 0
    ELSE perPaycheckDollar(contributionType, contributionValue, salary,
                           payPeriods)

yearlyContribution(contributionType, contributionValue, salary, payPeriods) ==
    IF Falsy(payPeriods) THEN 0
    ELSE perPaycheckDollar(contributionType, contributionValue, salary,
                           payPeriods) * payPeriods

\* the assumptions cell before the first successful load (null)
NullAssumptions == [isNull |-> TRUE]

\* the liveProjection / liveProjectionPlusOne / liveDelta memo
liveProjections(assumptions, age, currentBalance, salary, lp) ==
    IF assumptions.isNull
    THEN [liveProjection |-> Null, liveProjectionPlusOne |-> Null,
          liveDelta |-> Null]
    ELSE LET base == computeProjection(age, assumptions.retirementAge,
                                       assumptions.annualReturn,
                                       currentBalance, salary, lp)
             plusOne == computeProjection(age, assumptions.retirementAge,
                                          assumptions.annualReturn,
                                          currentBalance, salary, lp + Pct(1))
         IN [liveProjection |-> base,
             liveProjectionPlusOne |-> plusOne,
             liveDelta |-> IF plusOne # Null /\ base # Null
                           THEN plusOne - base ELSE Null]

hasChanges(contributionType, contributionValue, savedType, savedValue) ==
    \/ contributionType # savedType
    \/ ToFixed(numericContribution(contributionValue), 2) # ToFixed(savedValue, 2)

----------------------------------------------------------------------------
(* backend/index.js *)

ANNUAL_RETURN == 5000000
RETIREMENT_AGE == 65

InitialContributionState ==
    [age |-> 30,
     salary |-> Dollars(120000),
     payPeriodsPerYear |-> 24,
     ytdContribution |-> Dollars(8500),
     contributionType |-> "percent",
     contributionValue |-> 10 * MoneyScale,
     currentBalance |-> Dollars(15000)]

\* GET /api/contribution: the equivalent percent of the stored selection
currentPercent(cs) ==
    IF cs.contributionType = "percent"
    THEN cs.contributionValue * PctPerVal
    ELSE IF cs.salary > 0 /\ cs.payPeriodsPerYear > 0
    THEN LET yearlyDollar == cs.contributionValue * cs.payPeriodsPerYear
         IN Div(yearlyDollar, cs.salary, 8) \div FracPerPct
    ELSE 0

\* GET /api/contribution: the response body
GetResponse(cs) ==
    [age |-> cs.age,
     salary |-> cs.salary,
     payPeriodsPerYear |-> cs.payPeriodsPerYear,
     ytdContribution |-> cs.ytdContribution,
     currentBalance |-> cs.currentBalance,
     contributionType |-> cs.contributionType,
     contributionValue |-> cs.contributionValue,
     currentPercent |-> currentPercent(cs),
     assumptions |-> [retirementAge |-> RETIREMENT_AGE,
                      annualReturnPercent |-> ANNUAL_RETURN \div FracPerPct]]

\* the 50% cap is missing
PostAccepted_noPercentCap(body) ==
    LET valueNum == ToNumber(body.contributionValue)
    IN /\ body.contributionType \in {"percent", "dollar"}
       /\ IsFiniteNum(valueNum) /\ valueNum >= 0
       /\ ~(body.contributionType = "dollar" /\ valueNum > Dollars(5000))

\* POST /api/contribution: the checks on contributionType and contributionValue
PostAccepted(body) ==
    LET valueNum == ToNumber(body.contributionValue)
    IN /\ body.contributionType \in {"percent", "dollar"}
       /\ IsFiniteNum(valueNum) /\ valueNum >= 0
       /\ ~(body.contributionType = "percent" /\ valueNum > 50 * MoneyScale)
       /\ ~(body.contributionType = "dollar" /\ valueNum > Dollars(5000))

\* the salary is stored without the >= 0 check
PostNextState_anySalary(cs, body) ==
    LET ageNum == ToNumber(body.age)
        salaryNum == ToNumber(body.salary)
        ytdNum == ToNumber(body.ytdContribution)
        balNum == ToNumber(body.currentBalance)
        ppNum == ToNumber(body.payPeriodsPerYear)
    IN [contributionType |-> body.contributionType,
        contributionValue |-> ToNumber(body.contributionValue),
        age |-> IF /\ body.age # Undefined
                   /\ IsFiniteNum(ageNum) /\ ageNum > 0 /\ ageNum < 100
                THEN ageNum ELSE cs.age,
        salary |-> IF /\ body.salary # Undefined
                      /\ IsFiniteNum(salaryNum)
                   THEN salaryNum ELSE cs.salary,
        ytdContribution |-> IF /\ body.ytdContribution # Undefined
                               /\ IsFiniteNum(ytdNum) /\ ytdNum >= 0
                            THEN ytdNum ELSE cs.ytdContribution,
        currentBalance |-> IF /\ body.currentBalance # Undefined
                              /\ IsFiniteNum(balNum) /\ balNum >= 0
                           THEN balNum ELSE cs.currentBalance,
        payPeriodsPerYear |-> IF /\ body.payPeriodsPerYear # Undefined
                                 /\ IsFiniteNum(ppNum) /\ ppNum > 0 /\ ppNum <= 52
                              THEN ppNum ELSE cs.payPeriodsPerYear]

\* POST /api/contribution: nextState for an accepted body
PostNextState(cs, body) ==
    LET ageNum == ToNumber(body.age)
        salaryNum == ToNumber(body.salary)
        ytdNum == ToNumber(body.ytdContribution)
        balNum == ToNumber(body.currentBalance)
        ppNum == ToNumber(body.payPeriodsPerYear)
    IN [contributionType |-> body.contributionType,
        contributionValue |-> ToNumber(body.contributionValue),
        age |-> IF /\ body.age # Undefined
                   /\ IsFiniteNum(ageNum) /\ ageNum > 0 /\ ageNum < 100
                THEN ageNum ELSE cs.age,
        salary |-> IF /\ body.salary # Undefined
                      /\ IsFiniteNum(salaryNum) /\ salaryNum >= 0
                   THEN salaryNum ELSE cs.salary,
        ytdContribution |-> IF /\ body.ytdContribution # Undefined
                               /\ IsFiniteNum(ytdNum) /\ ytdNum >= 0
                            THEN ytdNum ELSE cs.ytdContribution,
        currentBalance |-> IF /\ body.currentBalance # Undefined
                              /\ IsFiniteNum(balNum) /\ balNum >= 0
                           THEN balNum ELSE cs.currentBalance,
        payPeriodsPerYear |-> IF /\ body.payPeriodsPerYear # Undefined
                                 /\ IsFiniteNum(ppNum) /\ ppNum > 0 /\ ppNum <= 52
                              THEN ppNum ELSE cs.payPeriodsPerYear]

\* POST /api/contribution: the whole handler
PostHandler(cs, body) ==
    IF PostAccepted(body) THEN PostNextState(cs, body) ELSE cs

----------------------------------------------------------------------------
(* The running system: one browser tab, the backend, and other HTTP clients *)

MaxActions == 3

AgeInputs == {0, 70}
SalaryInputs == {0, Dollars(60000), 0 - Dollars(1000)}
YtdInputs == {0}
BalanceInputs == {0}
SavedPercentInputs == {Pct(25)}
ValueInputs == {EmptyStr, 5 * MoneyScale, 60 * MoneyScale, Dollars(500)}

NoBody ==
    [contributionType |-> "none", contributionValue |-> Undefined,
     age |-> Undefined, salary |-> Undefined, ytdContribution |-> Undefined,
     currentBalance |-> Undefined, payPeriodsPerYear |-> Undefined]

\* request bodies sent by clients other than the page
ForeignBodies ==
    {[NoBody EXCEPT !.contributionType = t, !.contributionValue = v] :
        t \in {"percent", "dollar", "both"},
        v \in {NaN, 0 - MoneyScale, 50 * MoneyScale, 50 * MoneyScale + 1,
               Dollars(5000), Dollars(5000) + 1}}
    \cup
    {[NoBody EXCEPT !.contributionType = "dollar",
                    !.contributionValue = Dollars(100),
                    !.salary = sal, !.payPeriodsPerYear = pp] :
        sal \in {Undefined, 0, Dollars(70000)},
        pp \in {0, 26, 53}}

InitialUi ==
    [loading |-> TRUE, saving |-> FALSE, error |-> "", successMessage |-> "",
     age |-> Null, salary |-> Null, payPeriods |-> Null, ytd |-> Null,
     currentBalance |-> Null, assumptions |-> NullAssumptions,
     savedType |-> "percent", savedValue |-> 0, savedPercent |-> 0,
     contributionType |-> "percent", contributionValue |-> 0]

uiHasChanges ==
    hasChanges(ui.contributionType, ui.contributionValue,
               ui.savedType, ui.savedValue)

\* fetchData, response received
FetchDataOk ==
    /\ pc = "loading"
    /\ LET data == GetResponse(contributionState)
       IN /\ ui' = [ui EXCEPT
                 !.loading = FALSE,
                 !.error = "",
                 !.age = data.age,
                 !.salary = data.salary,
                 !.payPeriods = data.payPeriodsPerYear,
                 !.ytd = data.ytdContribution,
                 !.currentBalance = data.currentBalance,
                 !.assumptions =
                     [isNull |-> FALSE,
                      retirementAge |-> data.assumptions.retirementAge,
                      annualReturn |->
                          data.assumptions.annualReturnPercent * FracPerPct],
                 !.savedType = data.contributionType,
                 !.savedValue = data.contributionValue,
                 !.savedPercent = data.currentPercent,
                 !.contributionType = data.contributionType,
                 !.contributionValue = data.contributionValue]
          /\ lastGet' = data.currentPercent
    /\ pc' = "idle"
    /\ UNCHANGED <<contributionState, sent, postStatus, actions, mathvars>>

\* fetchData, the request failed
FetchDataFail ==
    /\ pc = "loading"
    /\ ui' = [ui EXCEPT !.loading = FALSE,
                        !.error = "Failed to load contribution data."]
    /\ pc' = "idle"
    /\ UNCHANGED <<contributionState, sent, lastGet, postStatus, actions,
                   mathvars>>

\* the form is rendered and the user may type: one more input
UserInput ==
    /\ ~ui.loading
    /\ actions < MaxActions
    /\ actions' = actions + 1
    /\ UNCHANGED <<contributionState, pc, sent, lastGet, postStatus, mathvars>>

\* onChange of the snapshot inputs: Number(e.target.value) || 0
SetAge ==
    /\ UserInput
    /\ \E v \in AgeInputs : ui' = [ui EXCEPT !.age = v]

SetSalary ==
    /\ UserInput
    /\ \E v \in SalaryInputs : ui' = [ui EXCEPT !.salary = v]

SetYtd ==
    /\ UserInput
    /\ \E v \in YtdInputs : ui' = [ui EXCEPT !.ytd = v]

SetCurrentBalance ==
    /\ UserInput
    /\ \E v \in BalanceInputs : ui' = [ui EXCEPT !.currentBalance = v]

\* onChange of the "You're currently saving" input
SetSavedPercent ==
    /\ UserInput
    /\ \E v \in SavedPercentInputs : ui' = [ui EXCEPT !.savedPercent = v]

\* the two toggle buttons
SetContributionType ==
    /\ UserInput
    /\ \E t \in {"percent", "dollar"} : ui' = [ui EXCEPT !.contributionType = t]

\* onChange of the slider and of the number input: the raw e.target.value
SetContributionValue ==
    /\ UserInput
    /\ \E v \in ValueInputs : ui' = [ui EXCEPT !.contributionValue = v]

handleResetRecommended ==
    /\ UserInput
    /\ ui' = [ui EXCEPT !.contributionType = "percent",
                        !.contributionValue = 10 * MoneyScale]

\* click on "Save contribution rate" (enabled unless saving || !hasChanges):
\* handleSave up to the first fetch
handleSave ==
    /\ ~ui.loading
    /\ pc = "idle"
    /\ ~ui.saving /\ uiHasChanges
    /\ ui' = [ui EXCEPT !.error = "", !.successMessage = "", !.saving = TRUE]
    /\ sent' = [contributionType |-> ui.contributionType,
                contributionValue |-> numericContribution(ui.contributionValue),
                age |-> ui.age,
                salary |-> ui.salary,
                ytdContribution |-> ui.ytd,
                currentBalance |-> ui.currentBalance,
                payPeriodsPerYear |-> ui.payPeriods]
    /\ pc' = "posting"
    /\ UNCHANGED <<contributionState, lastGet, postStatus, actions, mathvars>>

\* the backend handles the POST; handleSave continues with the response
handleSavePosted ==
    /\ pc = "posting"
    /\ contributionState' = PostHandler(contributionState, sent)
    /\ IF PostAccepted(sent)
       THEN /\ postStatus' = 200
            /\ pc' = "refreshing"
            /\ ui' = ui
       ELSE /\ postStatus' = 400
            /\ pc' = "idle"
            /\ ui' = [ui EXCEPT !.error = "Save failed", !.saving = FALSE]
    /\ UNCHANGED <<sent, lastGet, actions, mathvars>>

\* the POST never reaches the backend
handleSavePostFailed ==
    /\ pc = "posting"
    /\ postStatus' = 0
    /\ pc' = "idle"
    /\ ui' = [ui EXCEPT !.error = "Failed to save.", !.saving = FALSE]
    /\ UNCHANGED <<contributionState, sent, lastGet, actions, mathvars>>

\* the re-fetch after a save, response received
handleSaveRefreshed ==
    /\ pc = "refreshing"
    /\ LET refreshed == GetResponse(contributionState)
       IN /\ ui' = [ui EXCEPT
                 !.savedType = refreshed.contributionType,
                 !.savedValue = refreshed.contributionValue,
                 !.savedPercent = refreshed.currentPercent,
                 !.contributionType = refreshed.contributionType,
                 !.contributionValue = refreshed.contributionValue,
                 !.successMessage = "Your contribution rate has been saved.",
                 !.saving = FALSE]
          /\ lastGet' = refreshed.currentPercent
    /\ pc' = "idle"
    /\ UNCHANGED <<contributionState, sent, postStatus, actions, mathvars>>

\* the re-fetch after a save failed
handleSaveRefreshFailed ==
    /\ pc = "refreshing"
    /\ ui' = [ui EXCEPT !.error = "Saved, but failed to refresh data.",
                        !.saving = FALSE]
    /\ pc' = "idle"
    /\ UNCHANGED <<contributionState, sent, lastGet, postStatus, actions,
                   mathvars>>

\* POST /api/contribution from some other client
ForeignPost ==
    /\ actions < MaxActions
    /\ actions' = actions + 1
    /\ \E body \in ForeignBodies :
           contributionState' = PostHandler(contributionState, body)
    /\ UNCHANGED <<ui, pc, sent, lastGet, postStatus, mathvars>>

MathIdle ==
    /\ m_in = NoBody
    /\ m_out = [kind |-> "none"]

Init ==
    /\ contributionState = InitialContributionState
    /\ ui = InitialUi
    /\ pc = "loading"
    /\ sent = NoBody
    /\ lastGet = Null
    /\ postStatus = 0
    /\ actions = 0
    /\ MathIdle

Next ==
    \/ FetchDataOk
    \/ FetchDataFail
    \/ SetAge
    \/ SetSalary
    \/ SetYtd
    \/ SetCurrentBalance
    \/ SetSavedPercent
    \/ SetContributionType
    \/ SetContributionValue
    \/ handleResetRecommended
    \/ handleSave
    \/ handleSavePosted
    \/ handleSavePostFailed
    \/ handleSaveRefreshed
    \/ handleSaveRefreshFailed
    \/ ForeignPost

Spec == Init /\ [][Next]_vars

TypeOK ==
    /\ pc \in {"loading", "idle", "posting", "refreshing"}
    /\ ui.saving = (pc \in {"posting", "refreshing"})
    /\ actions \in 0..MaxActions

----------------------------------------------------------------------------
(* The calculator: the pure functions applied to one set of arguments *)

MathSelections ==
    {[contributionType |-> "percent", contributionValue |-> v] :
        v \in {0, 10 * MoneyScale, 1250, 50 * MoneyScale}}
    \cup
    {[contributionType |-> "dollar", contributionValue |-> v] :
        v \in {0, Dollars(100), Dollars(500), Dollars(5000)}}

MathInputs ==
    {[age |-> a, retirementAge |-> ra, annualReturn |-> r,
      currentBalance |-> bal, salary |-> sal, payPeriods |-> pp,
      contributionType |-> sel.contributionType,
      contributionValue |-> sel.contributionValue] :
        a \in {Null, 30, 64, 65, 70},
        ra \in {Null, RETIREMENT_AGE},
        r \in {0, ANNUAL_RETURN},
        bal \in {Null, 0, Dollars(15000)},
        sal \in {Null, 0, Dollars(70000), Dollars(120000)},
        pp \in {Null, 0, 24, 26},
        sel \in MathSelections}

\* the request-independent part of GET /api/contribution on the same inputs
MathServerPercent(in) ==
    currentPercent([contributionType |-> in.contributionType,
                    contributionValue |-> in.contributionValue,
                    salary |-> in.salary,
                    payPeriodsPerYear |-> in.payPeriods])

\* one render: livePercent, perPaycheckDollar, yearlyContribution
MathNormalize ==
    /\ m_out.kind = "none"
    /\ m_out' =
         [kind |-> "normalized",
          livePercent |-> livePercent(m_in.contributionType,
                              m_in.contributionValue, m_in.salary,
                              m_in.payPeriods),
          perPaycheckDollar |-> perPaycheckDollar(m_in.contributionType,
                                    m_in.contributionValue, m_in.salary,
                                    m_in.payPeriods),
          yearlyContribution |-> yearlyContribution(m_in.contributionType,
                                     m_in.contributionValue, m_in.salary,
                                     m_in.payPeriods),
          currentPercent |-> MathServerPercent(m_in)]
    /\ UNCHANGED <<m_in, sysvars>>

\* the same render: liveProjection, liveProjectionPlusOne, liveDelta
MathProject ==
    /\ m_out.kind = "normalized"
    /\ LET p == liveProjections([isNull |-> FALSE,
                                 retirementAge |-> m_in.retirementAge,
                                 annualReturn |-> m_in.annualReturn],
                                m_in.age, m_in.currentBalance, m_in.salary,
                                m_out.livePercent)
       IN m_out' = [m_out EXCEPT !.kind = "projected"] @@ p
    /\ UNCHANGED <<m_in, sysvars>>

MathInit ==
    /\ contributionState = InitialContributionState
    /\ ui = InitialUi
    /\ pc = "loading"
    /\ sent = NoBody
    /\ lastGet = Null
    /\ postStatus = 0
    /\ actions = 0
    /\ m_in \in MathInputs
    /\ m_out = [kind |-> "none"]

MathNext ==
    \/ MathNormalize
    \/ MathProject

SpecMath == MathInit /\ [][MathNext]_vars

MathAllKnown ==
    /\ m_in.age # Null
    /\ m_in.retirementAge # Null
    /\ m_in.salary # Null
    /\ m_in.currentBalance # Null

----------------------------------------------------------------------------
(* Properties *)

MathYears == m_in.retirementAge - m_in.age

MathScenario ==
    /\ m_in.age = 30
    /\ m_in.retirementAge = 65
    /\ m_in.annualReturn = ANNUAL_RETURN
    /\ m_in.currentBalance = Dollars(15000)
    /\ m_in.salary = Dollars(120000)
    /\ m_in.contributionType = "percent"
    /\ m_in.contributionValue = 10 * MoneyScale

\* C1 as stated: in the scenario age 30, retirement age 65, 5% return,
\* balance 15000, salary 120000, 10%: the yearly contribution is 12000, the
\* horizon is 35 years and the projection is within $5 of $1,166,608.
C1_ScenarioAsStated ==
    (m_out.kind = "projected" /\ MathScenario) =>
        /\ YearlyOfPercent(m_in.salary, m_out.livePercent) = Dollars(12000)
        /\ MathYears = 35
        /\ Abs(m_out.liveProjection - Dollars(1166608)) <= Dollars(5)

\* C1 amended: in the same scenario the yearly contribution is 12000, the
\* horizon is 35 years and the projection is within $5 of $1,166,584.
C1_Scenario ==
    (m_out.kind = "projected" /\ MathScenario) =>
        /\ YearlyOfPercent(m_in.salary, m_out.livePercent) = Dollars(12000)
        /\ MathYears = 35
        /\ Abs(m_out.liveProjection - Dollars(1166584)) <= Dollars(5)

C1_ScenarioProjected ==
    /\ m_out.kind = "projected"
    /\ MathScenario
    /\ m_out.liveProjection > Dollars(1000000)

\* C2: the percent the backend reports for the stored selection equals the
\* percent the page's live normalizer computes from the same raw inputs
\* (type, value, salary, pay periods), for every selection and snapshot the
\* backend can hold; so whenever the page shows the stored inputs, its live
\* percent equals the reported one.
C2_ClientServerAgree ==
    LET cs == contributionState
    IN /\ livePercent(cs.contributionType, cs.contributionValue, cs.salary,
                      cs.payPeriodsPerYear) = GetResponse(cs).currentPercent
       /\ ( /\ ui.contributionType = cs.contributionType
            /\ numericContribution(ui.contributionValue) = cs.contributionValue
            /\ ui.salary = cs.salary
            /\ ui.payPeriods = cs.payPeriodsPerYear )
          => livePercent(ui.contributionType, ui.contributionValue, ui.salary,
                         ui.payPeriods) = GetResponse(cs).currentPercent

C2_DollarSelectionStored ==
    /\ contributionState.contributionType = "dollar"
    /\ contributionState.salary > 0
    /\ contributionState.contributionValue > 0
    /\ currentPercent(contributionState) % PctScale # 0
    /\ ui.contributionType = "dollar"
    /\ ui.salary = contributionState.salary
    /\ ui.savedPercent = currentPercent(contributionState)

\* C3 as stated: once the page has loaded, the displayed "currently saving"
\* percent equals the currentPercent of the most recent successful GET
\* response (so nothing but a load or a save-and-refresh changes it).
C3_SavedPercentDerived ==
    (~ui.loading /\ lastGet # Null) => ui.savedPercent = lastGet

\* C4: for a Dollar selection with salary 0 or pay periods 0, the equivalent
\* percent (page and backend), the per-paycheck amount and the yearly amount
\* are all 0 (and are computed without a division by zero).
C4_DollarZeroGuard ==
    ( /\ m_out.kind # "none"
      /\ m_in.contributionType = "dollar"
      /\ (m_in.salary = 0 \/ m_in.payPeriods = 0) )
    => /\ m_out.livePercent = 0
       /\ m_out.currentPercent = 0
       /\ m_out.perPaycheckDollar = 0
       /\ m_out.yearlyContribution = 0

C4_DollarZeroSalaryNormalized ==
    /\ m_out.kind = "normalized"
    /\ m_in.contributionType = "dollar"
    /\ m_in.contributionValue = Dollars(500)
    /\ m_in.salary = 0
    /\ m_in.payPeriods = 24

\* C5: the stored selection always has type percent or dollar, a value
\* >= 0, at most 50 for percent and at most 5000 for dollar.
C5_SelectionInvariant ==
    LET cs == contributionState
    IN /\ cs.contributionType \in {"percent", "dollar"}
       /\ cs.contributionValue >= 0
       /\ cs.contributionType = "percent"
            => cs.contributionValue <= 50 * MoneyScale
       /\ cs.contributionType = "dollar"
            => cs.contributionValue <= Dollars(5000)

C5_RejectedAfterAccepted ==
    /\ postStatus = 400
    /\ contributionState.contributionType = "dollar"
    /\ contributionState.contributionValue = Dollars(5000)

\* C6: when age, currentBalance, retirementAge or salary is absent, the
\* projection, the +1% projection and their difference are the null marker,
\* which no numeric result equals.
C6_MissingInputIndeterminate ==
    (m_out.kind = "projected" /\ ~MathAllKnown)
    => /\ m_out.liveProjection = Null
       /\ m_out.liveProjectionPlusOne = Null
       /\ m_out.liveDelta = Null
       /\ ~IsFiniteNum(m_out.liveProjection)

C6_BalanceMissingProjected ==
    /\ m_out.kind = "projected"
    /\ m_in.currentBalance = Null
    /\ m_in.age = 30
    /\ m_in.retirementAge = RETIREMENT_AGE
    /\ m_in.salary = Dollars(120000)
    /\ m_out.liveProjection = Null

\* positive increments of the contribution percent: 0.01%, 0.5%, 1%, 7.25%
PercentDeltas == {PctScale \div 100, PctScale \div 2, Pct(1), 7250000}

\* C7: with salary > 0 and years > 0, raising the contribution percent by a
\* positive delta strictly raises the projection; in particular the +1%
\* projection exceeds the base projection and liveDelta > 0.
C7_Monotone ==
    ( /\ m_out.kind = "projected"
      /\ MathAllKnown
      /\ m_in.salary > 0
      /\ MathYears > 0 )
    => /\ m_out.liveProjectionPlusOne > m_out.liveProjection
       /\ m_out.liveDelta > 0
       /\ \A d \in PercentDeltas :
              computeProjection(m_in.age, m_in.retirementAge,
                                m_in.annualReturn, m_in.currentBalance,
                                m_in.salary, m_out.livePercent + d)
              > computeProjection(m_in.age, m_in.retirementAge,
                                  m_in.annualReturn, m_in.currentBalance,
                                  m_in.salary, m_out.livePercent)

C7_ZeroRateProjected ==
    /\ m_out.kind = "projected"
    /\ MathAllKnown
    /\ m_in.salary > 0
    /\ MathYears = 1
    /\ m_in.annualReturn = 0
    /\ m_out.livePercent = 0
    /\ m_out.liveDelta > 0

\* the body of a save is what the backend now holds
Reflected(cs, body) ==
    /\ cs.contributionType = body.contributionType
    /\ cs.contributionValue = body.contributionValue
    /\ cs.age = body.age
    /\ cs.salary = body.salary
    /\ cs.ytdContribution = body.ytdContribution
    /\ cs.currentBalance = body.currentBalance

\* C8 as stated: when a click on "Save contribution rate" on the loaded page
\* has been answered by the backend, the backend's state holds the values
\* the page showed and sent.
C8_SaveReachesBackend ==
    [][ ( /\ pc = "posting"
          /\ pc' # "posting"
          /\ postStatus' # 0
          /\ lastGet # Null )
        => Reflected(contributionState', sent) ]_vars

\* C9: when retirementAge - age <= 0 the projection is exactly
\* currentBalance plus one yearly contribution, whatever the return rate.
C9_PastRetirement ==
    ( /\ m_out.kind = "projected"
      /\ MathAllKnown
      /\ MathYears <= 0 )
    => m_out.liveProjection =
           m_in.currentBalance + YearlyOfPercent(m_in.salary, m_out.livePercent)

C9_AtRetirementAgeProjected ==
    /\ m_out.kind = "projected"
    /\ MathAllKnown
    /\ MathYears = 0
    /\ m_in.annualReturn = ANNUAL_RETURN
    /\ m_in.currentBalance = Dollars(15000)
    /\ YearlyOfPercent(m_in.salary, m_out.livePercent) > 0
    /\ m_out.liveProjection > m_in.currentBalance

\* C10: for a Dollar selection with salary > 0 and pay periods > 0, the
\* percent formula applied to the equivalent percent gives the yearly amount
\* value * payPeriods back, to within one cent.
C10_RoundTrip ==
    ( /\ m_out.kind # "none"
      /\ m_in.contributionType = "dollar"
      /\ m_in.salary # Null /\ m_in.salary > 0
      /\ m_in.payPeriods # Null /\ m_in.payPeriods > 0 )
    => /\ m_out.yearlyContribution = m_in.contributionValue * m_in.payPeriods
       /\ Abs(YearlyOfPercent(m_in.salary, m_out.livePercent)
               - m_out.yearlyContribution) <= 1

C10_InexactPercentNormalized ==
    /\ m_out.kind = "normalized"
    /\ m_in.contributionType = "dollar"
    /\ m_in.salary = Dollars(70000)
    /\ m_in.payPeriods = 26
    /\ m_in.contributionValue = Dollars(100)
    /\ m_out.livePercent % PctScale # 0
    /\ m_out.yearlyContribution = Dollars(2600)

MathPercentCase ==
    /\ m_out.kind # "none"
    /\ m_in.contributionType = "percent"
    /\ m_in.salary # Null /\ m_in.salary > 0
    /\ m_in.payPeriods # Null /\ m_in.payPeriods > 0

\* salary * (v / 100) for the Percent selection of the calculator
MathPercentYearly ==
    YearlyOfPercent(m_in.salary, m_in.contributionValue * PctPerVal)

C12_ZeroReturn ==
    ( /\ m_out.kind = "projected"
      /\ MathAllKnown
      /\ m_in.annualReturn = 0
      /\ MathYears > 0 )
    => /\ AnnuityFactor(m_in.annualReturn, MathYears) = MathYears * PctScale
       /\ m_out.liveProjection =
              m_in.currentBalance
              + YearlyOfPercent(m_in.salary, m_out.livePercent) * MathYears

C12_ZeroReturnProjected ==
    /\ m_out.kind = "projected"
    /\ MathAllKnown
    /\ m_in.annualReturn = 0
    /\ MathYears = 35
    /\ m_in.currentBalance = Dollars(15000)
    /\ m_in.salary = Dollars(120000)
    /\ m_out.livePercent = Pct(10)
    /\ m_out.liveProjection = Dollars(15000) + 35 * Dollars(12000)

====
